---- MODULE Spec2Model ----
(***************************************************************************)
(* Model of the FSx for Windows file-system construct of aws-fsx/lib:      *)
(* the WindowsFileSystem constructor (validation, security group, ingress  *)
(* rule, connections, CfnFileSystem), the import path                      *)
(* fromWindowsFileSystemAttributes, and the BackupStartTime value object.  *)
(*                                                                         *)
(* Two definitions of the WindowsFileSystem class are in the sources:      *)
(*   FULL  : src/unnamed/part_000 (eleven validators, time fields)         *)
(*   BASIC : src/packages/@aws-cdk/aws-fsx/lib/windows-file-system.ts      *)
(*           (throughput and storage validators only)                      *)
(*                                                                         *)
(* Strings are sequences of one-character strings; an optional value is a  *)
(* sequence of length 0 (undefined) or 1 (the value).                      *)
(***************************************************************************)
EXTENDS Integers, Sequences, FiniteSets, TLC

VARIABLES pc, impl, input, vIdx, ran, err, windowsConfiguration, securityGroup,
          stackGroups, createdGroups, ingressRules, connections, resources,
          handle, timeObj, timeResults

vars == <<pc, impl, input, vIdx, ran, err, windowsConfiguration, securityGroup,
          stackGroups, createdGroups, ingressRules, connections, resources,
          handle, timeObj, timeResults>>

(***************************************************************************)
(* Bounds of the model.                                                    *)
(***************************************************************************)
\* at most this many fields of the props differ from the valid baseline
MaxDeviations == 2
\* throughput capacities 0 .. MaxThroughputInput are tried one by one
MaxThroughputInput == 8200
\* storage capacities within this distance of each limit are tried
StorageWindow == 3
\* toTimestamp() is called at most this many times on one time object
MaxTimestampCalls == 2
\* hours -1 .. MaxHourInput and minutes -1 .. MaxMinuteInput are tried
MaxHourInput == 26
MaxMinuteInput == 61

(***************************************************************************)
(* Optional values and strings.                                            *)
(***************************************************************************)
Undefined == <<>>
Some(v) == <<v>>
IsDefined(o) == o # Undefined
\* n copies of the character c
Repeat(c, n) == [i \in 1..n |-> c]
\* JavaScript truthiness of an optional string: undefined and "" are falsy
TruthyString(o) == IsDefined(o) /\ o[1] # <<>>
\* JavaScript truthiness of an optional array: only undefined is falsy
TruthyArray(o) == IsDefined(o)

FULL == "unnamed/part_000"
BASIC == "lib/windows-file-system.ts"

NoError == ""

(***************************************************************************)
(* Characters that matter to the regular expressions.                      *)
(***************************************************************************)
NUL == "U+0000"
NEL == "U+0085"
LS == "U+2028"
PS == "U+2029"
CR == "U+000D"
LF == "U+000A"
\* the characters the JavaScript `.` does not match
LineTerminators == {LF, CR, LS, PS}
\* the characters excluded by [^\u0000\u0085  \r\n]
SeparatorChars == {NUL, NEL, LS, PS, CR, LF}
DecimalDigits == {"0", "1", "2", "3", "4", "5", "6", "7", "8", "9"}
HexDigits == DecimalDigits \cup {"a", "b", "c", "d", "e", "f"}

\* RegExp('^[^<excluded>]{lo,hi}$').test(s)
ClassRepeatTest(s, excluded, lo, hi) ==
    /\ Len(s) >= lo
    /\ Len(s) <= hi
    /\ \A i \in 1..Len(s) : s[i] \notin excluded

(***************************************************************************)
(* Limits written in the validators.                                       *)
(***************************************************************************)
MinThroughput == 8
MaxThroughput == 4096
MinStorage == 32
MaxStorage == 65536
MaxAliases == 50
MaxDnsIps == 3
ActiveDirectoryHexLen == 10
MaxDomainNameLen == 255
MaxAdminGroupLen == 256
MaxOuNameLen == 2000
MaxPasswordLen == 256
MaxUsernameLen == 256
MaxArnPartitionLen == 63
MaxArnServiceLen == 63
MaxArnRegionLen == 63
ArnAccountLen == 12
MaxArnResourceTailLen == 1023

(***************************************************************************)
(* Error messages.                                                         *)
(***************************************************************************)
ErrActiveDirectoryId == "Active Directory ID must begin with the literal d- and should be followed by exactly 10 alphanumeric characters. Allowed alphanumeric values include 0-9 and a-f."
ErrThroughput == "Throughput Capacity must be between 8 and 4096 GiB and a power of 2"
ErrThroughputBasic == "throughput capacity must be between 8 and 4096 GiB and a power of 2"
ErrStorage == "storageCapacity must be between 32 and 65536 GiB"
ErrAliases == "List must not exceed 50 DNS alias names."
ErrPreferredSubnetId == "Preferred Subnet ID is required when deploymentType is set to MULTI_AZ_1"
ErrDnsIps == "List must not exceed 3 DNS IPs."
ErrDomainName == "Value must be a valid Domain Name. It must not contain newline, carriage return, line separator or paragraph separator and must not exceed 255 characters limit."
ErrAdminGroup == "Value must be a valid Domain Group. It must not contain newline, carriage return, line separator or paragraph separator and must not exceed 256 characters limit."
ErrOuName == "Value must be a valid fully qualified distinguished name of the organizational unit. It must not contain newline, carriage return, line separator or paragraph separator and must not exceed 2000 characters limit."
ErrPassword == "Password must not exceed 256 characters limit."
ErrUsername == "Username must not contain newline, carriage return, line separator or paragraph separator and must not exceed 256 characters limit."
ErrARN == "Audit Log Destination must be a valid ARN"
ErrHour == "Maintenance time hour must be an integer between 0 and 24"
ErrMinute == "Maintenance time minute must be an integer between 0 and 59"

(***************************************************************************)
(* The validators of unnamed/part_000 (FULL).  Each returns the message of *)
(* the Error it throws, or NoError when it returns normally.               *)
(***************************************************************************)
\* RegExp('^d-[0-9a-f]{10}$').test(s)
activeDirectoryRegexTest(s) ==
    /\ Len(s) = 2 + ActiveDirectoryHexLen
    /\ s[1] = "d"
    /\ s[2] = "-"
    /\ \A i \in 3..Len(s) : s[i] \in HexDigits

validateActiveDirectoryId(activeDirectoryId) ==
    IF TruthyString(activeDirectoryId) /\ ~activeDirectoryRegexTest(activeDirectoryId[1])
    THEN ErrActiveDirectoryId ELSE NoError

\* Math.log2(v) % 1 === 0 for an integer v: v is 2^k for a whole k >= 0
\* (log2 of 0 is -Infinity and of a negative number NaN; neither % 1 is 0)
RECURSIVE Log2IsWhole(_)
Log2IsWhole(v) ==
    IF v < 1 THEN FALSE
    ELSE IF v = 1 THEN TRUE
    ELSE v % 2 = 0 /\ Log2IsWhole(v \div 2)

\* mutant: the range test without the power-of-two test
ThroughputRejectedRangeOnly(throughputCapacity) ==
    throughputCapacity < MinThroughput \/ throughputCapacity > MaxThroughput

ThroughputRejected(throughputCapacity) ==
    (throughputCapacity < MinThroughput \/ throughputCapacity > MaxThroughput)
        \/ ~Log2IsWhole(throughputCapacity)

validateThroughputCapacity(throughputCapacity) ==
    IF ThroughputRejected(throughputCapacity) THEN ErrThroughput ELSE NoError

\* mutant: a list of exactly the limit is rejected too
validateAliasesBelowLimit(aliases) ==
    IF TruthyArray(aliases) /\ Len(aliases[1]) >= MaxAliases THEN ErrAliases ELSE NoError

validateAliases(aliases) ==
    IF TruthyArray(aliases) /\ Len(aliases[1]) > MaxAliases THEN ErrAliases ELSE NoError

\* mutant: nothing is required of any deployment type
validatePreferredSubnetIdNeverRequired(deploymentType, preferredSubnetId) == NoError

\* mutant: the deployment type is not looked at
validatePreferredSubnetIdAnyType(deploymentType, preferredSubnetId) ==
    IF preferredSubnetId = Undefined THEN ErrPreferredSubnetId ELSE NoError

validatePreferredSubnetId(deploymentType, preferredSubnetId) ==
    IF deploymentType = "MULTI_AZ_1" /\ preferredSubnetId = Undefined
    THEN ErrPreferredSubnetId ELSE NoError

validateDnsIps(dnsIps) ==
    IF TruthyArray(dnsIps) /\ Len(dnsIps[1]) > MaxDnsIps THEN ErrDnsIps ELSE NoError

validateDomainName(domainName) ==
    IF TruthyString(domainName)
       /\ ~ClassRepeatTest(domainName[1], SeparatorChars, 1, MaxDomainNameLen)
    THEN ErrDomainName ELSE NoError

validateFileSystemAdministratorsGroup(fileSystemAdministratorsGroup) ==
    IF TruthyString(fileSystemAdministratorsGroup)
       /\ ~ClassRepeatTest(fileSystemAdministratorsGroup[1], SeparatorChars, 1, MaxAdminGroupLen)
    THEN ErrAdminGroup ELSE NoError

validateOrganizationalUnitDistinguishedName(organizationalUnitDistinguishedName) ==
    IF TruthyString(organizationalUnitDistinguishedName)
       /\ ~ClassRepeatTest(organizationalUnitDistinguishedName[1], SeparatorChars, 1, MaxOuNameLen)
    THEN ErrOuName ELSE NoError

\* RegExp('^.{1,256}$'): `.` matches every character but a line terminator
validatePassword(password) ==
    IF TruthyString(password)
       /\ ~ClassRepeatTest(password[1], LineTerminators, 1, MaxPasswordLen)
    THEN ErrPassword ELSE NoError

validateUsername(username) ==
    IF TruthyString(username)
       /\ ~ClassRepeatTest(username[1], SeparatorChars, 1, MaxUsernameLen)
    THEN ErrUsername ELSE NoError

\* index of the first ":" of s at or after position from, 0 when there is none
NextColon(s, from) ==
    LET hits == {i \in from..Len(s) : s[i] = ":"}
    IN  IF hits = {} THEN 0 ELSE CHOOSE i \in hits : \A j \in hits : i <= j

\* s[a..b], empty when b < a
Slice(s, a, b) == [i \in 1..(b - a + 1) |-> s[a + i - 1]]

\* The account group of regexARN.  The pattern is written in a string
\* literal, '...(?:|\d{12})...': JavaScript drops the backslash of the
\* unknown escape \d, so the regular expression holds d{12}, twelve
\* letters d.
ArnAccountGroupTest(seg) ==
    seg = <<>> \/ (Len(seg) = ArnAccountLen /\ \A i \in 1..Len(seg) : seg[i] = "d")

\* regexARN.test(s) for
\* ^arn:[^:]{1,63}:[^:]{0,63}:[^:]{0,63}:(?:|d{12}):[^/].{0,1023}$
\* The four [^:] segments hold no colon, so they end at the next colons.
regexARNTest(s) ==
    LET c1 == NextColon(s, 5)
        c2 == IF c1 = 0 THEN 0 ELSE NextColon(s, c1 + 1)
        c3 == IF c2 = 0 THEN 0 ELSE NextColon(s, c2 + 1)
        c4 == IF c3 = 0 THEN 0 ELSE NextColon(s, c3 + 1)
    IN  /\ Len(s) >= 4
        /\ Slice(s, 1, 4) = <<"a", "r", "n", ":">>
        /\ c4 # 0
        /\ (c1 - 5) >= 1 /\ (c1 - 5) <= MaxArnPartitionLen
        /\ (c2 - c1 - 1) <= MaxArnServiceLen
        /\ (c3 - c2 - 1) <= MaxArnRegionLen
        /\ ArnAccountGroupTest(Slice(s, c3 + 1, c4 - 1))
        /\ Len(s) >= c4 + 1
        /\ s[c4 + 1] # "/"
        /\ Len(s) - (c4 + 1) <= MaxArnResourceTailLen
        /\ \A i \in (c4 + 2)..Len(s) : s[i] \notin LineTerminators

validateARN(auditLogDestination) ==
    IF TruthyString(auditLogDestination) /\ ~regexARNTest(auditLogDestination[1])
    THEN ErrARN ELSE NoError

(***************************************************************************)
(* The validators of lib/windows-file-system.ts (BASIC).                   *)
(***************************************************************************)
validateThroughputCapacityBasic(throughputCapacity) ==
    IF ThroughputRejected(throughputCapacity) THEN ErrThroughputBasic ELSE NoError

validateStorageCapacity(storageCapacity) ==
    IF storageCapacity < MinStorage \/ storageCapacity > MaxStorage
    THEN ErrStorage ELSE NoError

(***************************************************************************)
(* JavaScript numbers given as hour and minute: int + frac/10 with         *)
(* int = floor of the value and frac in 0..9.                              *)
(***************************************************************************)
Num(i) == [int |-> i, frac |-> 0]
NumFrac(i, f) == [int |-> i, frac |-> f]
NumberIsInteger(x) == x.frac = 0
NumLess(x, k) == x.int < k
NumGreater(x, k) == x.int > k \/ (x.int = k /\ x.frac > 0)

DigitChar(d) == <<"0", "1", "2", "3", "4", "5", "6", "7", "8", "9">>[d + 1]

RECURSIVE NatToString(_)
NatToString(n) ==
    IF n < 10 THEN <<DigitChar(n)>>
    ELSE NatToString(n \div 10) \o <<DigitChar(n % 10)>>

\* Number.prototype.toString() in base ten
NumberToString(x) ==
    LET t == x.int * 10 + x.frac
        m == IF t < 0 THEN 0 - t ELSE t
        sign == IF t < 0 THEN <<"-">> ELSE <<>>
        tail == IF m % 10 = 0 THEN <<>> ELSE <<".", DigitChar(m % 10)>>
    IN  sign \o NatToString(m \div 10) \o tail

(***************************************************************************)
(* BackupStartTime (lib/backup-start-time.ts).                             *)
(***************************************************************************)
\* mutant: no zero is put in front
getTwoDigitStringUnpadded(n) == NumberToString(n)

\* mutant: a zero is put in front whatever the length
getTwoDigitStringAlwaysPadded(n) == <<"0">> \o NumberToString(n)

getTwoDigitString(n) ==
    LET numberString == NumberToString(n)
    IN  IF Len(numberString) = 1 THEN <<"0">> \o NumberToString(n) ELSE numberString

\* mutant: the minute is checked before the hour
validateMinuteFirst(hour, minute) ==
    IF ~NumberIsInteger(minute) \/ NumLess(minute, 0) \/ NumGreater(minute, 59) THEN ErrMinute
    ELSE IF ~NumberIsInteger(hour) \/ NumLess(hour, 0) \/ NumGreater(hour, 24) THEN ErrHour
    ELSE NoError

validate(hour, minute) ==
    IF ~NumberIsInteger(hour) \/ NumLess(hour, 0) \/ NumGreater(hour, 24) THEN ErrHour
    ELSE IF ~NumberIsInteger(minute) \/ NumLess(minute, 0) \/ NumGreater(minute, 59) THEN ErrMinute
    ELSE NoError

\* new BackupStartTime(p): the Error thrown, or the object's two fields
BackupStartTime(p) ==
    LET e == validate(p.hour, p.minute)
    IN  IF e # NoError
        THEN [error |-> e, args |-> p, hour |-> <<>>, minute |-> <<>>]
        ELSE [error |-> NoError, args |-> p,
              hour |-> getTwoDigitString(p.hour),
              minute |-> getTwoDigitString(p.minute)]

toTimestamp(t) == t.hour \o <<":">> \o t.minute

(***************************************************************************)
(* WindowsMaintenanceTime (./windows-maintenance-time, not among the       *)
(* sources): day index, then the hour and minute as in BackupStartTime.    *)
(***************************************************************************)
Weekdays == <<"MONDAY", "TUESDAY", "WEDNESDAY", "THURSDAY", "FRIDAY", "SATURDAY", "SUNDAY">>
WeekdayIndex(day) == CHOOSE i \in 1..Len(Weekdays) : Weekdays[i] = day

WindowsMaintenanceTime(p) ==
    LET e == validate(p.hour, p.minute)
    IN  IF e # NoError
        THEN [error |-> e, args |-> p, day |-> <<>>, hour |-> <<>>, minute |-> <<>>]
        ELSE [error |-> NoError, args |-> p,
              day |-> NatToString(WeekdayIndex(p.day)),
              hour |-> getTwoDigitString(p.hour),
              minute |-> getTwoDigitString(p.minute)]

WeekdayInputs == {Weekdays[i] : i \in 1..Len(Weekdays)}

maintenanceToTimestamp(t) == t.day \o <<":">> \o t.hour \o <<":">> \o t.minute

(***************************************************************************)
(* Inputs.  The props given to the constructor are a valid baseline with   *)
(* at most MaxDeviations fields replaced by one of the field's other       *)
(* values, or the baseline with one throughput or storage capacity of the  *)
(* ranges (ConstructThroughput, ConstructStorage).                         *)
(***************************************************************************)
StrAws == <<"a", "w", "s">>
StrLogs == <<"l", "o", "g", "s">>
StrUs == <<"u", "s">>
StrLog == <<"l", "o", "g">>
StrAccountDigits == <<"1", "2", "3", "4", "5", "6", "7", "8", "9", "0", "1", "2">>

Arn(prefix, partition, service, region, account, resource) ==
    prefix \o partition \o <<":">> \o service \o <<":">> \o region \o <<":">>
        \o account \o <<":">> \o resource

ArnPrefix == <<"a", "r", "n", ":">>
ArnDigitAccount == Arn(ArnPrefix, StrAws, StrLogs, StrUs, StrAccountDigits, StrLog)
ArnNoAccount == Arn(ArnPrefix, StrAws, <<"s", "3">>, <<>>, <<>>, StrLog)
ArnNoPrefix == Arn(<<>>, StrAws, StrLogs, StrUs, StrAccountDigits, StrLog)
ArnSlashResource == Arn(ArnPrefix, StrAws, StrLogs, StrUs, <<>>, <<"/">> \o StrLog)
ArnLetterAccount == Arn(ArnPrefix, StrAws, StrLogs, StrUs, Repeat("d", ArnAccountLen), StrLog)
ArnShortAccount == Arn(ArnPrefix, StrAws, StrLogs, StrUs, Slice(StrAccountDigits, 1, 11), StrLog)
ArnPathResource == Arn(ArnPrefix, StrAws, StrLogs, StrUs, <<>>, StrLog \o <<":", "/">> \o StrAws)
ArnInputs ==
    {ArnDigitAccount, ArnNoAccount, ArnNoPrefix, ArnSlashResource, ArnLetterAccount,
     ArnShortAccount, ArnPathResource, <<>>}

ActiveDirectoryIdInputs ==
    {<<"d", "-">> \o Repeat("a", ActiveDirectoryHexLen),
     <<"d", "-">> \o Repeat("9", ActiveDirectoryHexLen - 1),
     <<"d", "-">> \o Repeat("0", ActiveDirectoryHexLen + 1),
     <<"x", "-">> \o Repeat("0", ActiveDirectoryHexLen),
     <<"d", "-">> \o Repeat("g", ActiveDirectoryHexLen),
     <<>>}

\* free-text values around the limit n: lengths n and n + 1, the empty
\* string, and a short one holding the separator sep
TextInputs(n, sep) ==
    {Repeat("x", n), Repeat("x", n + 1), <<>>, <<"a", sep, "b">>}

Dims ==
    <<"activeDirectoryId", "throughputCapacity", "aliases", "deploymentType",
      "preferredSubnetId", "dnsIps", "domainName", "fileSystemAdministratorsGroup",
      "organizationalUnitDistinguishedName", "password", "username",
      "auditLogDestination", "storageCapacityGiB", "securityGroup",
      "dailyAutomaticBackupStartTime", "weeklyMaintenanceStartTime", "kmsKey", "backupId">>

\* the fields the props of lib/windows-file-system.ts have
DimsBasic ==
    <<"throughputCapacity", "deploymentType", "storageCapacityGiB", "securityGroup",
      "kmsKey", "backupId">>

SelfManagedDims ==
    {"dnsIps", "domainName", "fileSystemAdministratorsGroup",
     "organizationalUnitDistinguishedName", "password", "username"}

ExistingGroup == "sg-existing"
NewGroup == "FsxWindowsSecurityGroup"

Baseline(d) ==
    CASE d = "throughputCapacity" -> 8
      [] d = "deploymentType" -> "SINGLE_AZ_1"
      [] d = "storageCapacityGiB" -> 1200
      [] OTHER -> Undefined

Alts(d) ==
    CASE d = "activeDirectoryId" -> {Some(v) : v \in ActiveDirectoryIdInputs}
      [] d = "throughputCapacity" -> {-8, 7, 4096, 4097}
      [] d = "aliases" ->
            {Some(Repeat("alias", MaxAliases)), Some(Repeat("alias", MaxAliases + 1))}
      [] d = "deploymentType" -> {"MULTI_AZ_1", "SINGLE_AZ_2"}
      [] d = "preferredSubnetId" -> {Some("subnet-1")}
      [] d = "dnsIps" -> {Some(Repeat("ip", MaxDnsIps)), Some(Repeat("ip", MaxDnsIps + 1))}
      [] d = "domainName" -> {Some(v) : v \in TextInputs(MaxDomainNameLen, LF)}
      [] d = "fileSystemAdministratorsGroup" ->
            {Some(v) : v \in TextInputs(MaxAdminGroupLen, LS)}
      [] d = "organizationalUnitDistinguishedName" ->
            {Some(v) : v \in TextInputs(MaxOuNameLen, NUL)}
      [] d = "password" -> {Some(v) : v \in TextInputs(MaxPasswordLen, LF)}
      [] d = "username" -> {Some(v) : v \in TextInputs(MaxUsernameLen, CR)}
      [] d = "auditLogDestination" -> {Some(v) : v \in ArnInputs}
      [] d = "storageCapacityGiB" -> {MinStorage - 1, MinStorage, MaxStorage, MaxStorage + 1}
      [] d = "securityGroup" -> {Some(ExistingGroup)}
      [] d = "dailyAutomaticBackupStartTime" ->
            {Some(BackupStartTime([hour |-> Num(5), minute |-> Num(0)])),
             Some(BackupStartTime([hour |-> Num(23), minute |-> Num(59)]))}
      [] d = "weeklyMaintenanceStartTime" ->
            {Some(WindowsMaintenanceTime([day |-> "SUNDAY", hour |-> Num(0), minute |-> Num(0)]))}
      [] d = "kmsKey" -> {Some([keyId |-> "key-1"])}
      [] d = "backupId" -> {Some("backup-1")}

\* the choices of at most k other values for the fields ds[i..]
RECURSIVE Overrides(_, _, _)
Overrides(ds, i, k) ==
    IF i > Len(ds) \/ k = 0 THEN {<<>>}
    ELSE Overrides(ds, i + 1, k)
         \cup {(ds[i] :> v) @@ o : v \in Alts(ds[i]), o \in Overrides(ds, i + 1, k - 1)}

OptionalKeys ==
    {"activeDirectoryId", "aliases", "auditLogConfiguration", "automaticBackupRetentionDays",
     "copyTagsToBackups", "dailyAutomaticBackupStartTime", "preferredSubnetId",
     "selfManagedActiveDirectoryConfiguration", "storageType", "weeklyMaintenanceStartTime"}

\* the props object the caller writes for the choice o
Build(o) ==
    LET G(d) == IF d \in DOMAIN o THEN o[d] ELSE Baseline(d)
        smad == IF (DOMAIN o) \cap SelfManagedDims = {} THEN Undefined
                ELSE Some([dnsIps |-> G("dnsIps"),
                           domainName |-> G("domainName"),
                           fileSystemAdministratorsGroup |-> G("fileSystemAdministratorsGroup"),
                           organizationalUnitDistinguishedName |->
                               G("organizationalUnitDistinguishedName"),
                           password |-> G("password"),
                           username |-> G("username")])
        audit == IF "auditLogDestination" \in DOMAIN o
                 THEN Some([auditLogDestination |-> G("auditLogDestination"),
                            fileAccessAuditLogLevel |-> "SUCCESS_ONLY",
                            fileShareAccessAuditLogLevel |-> "DISABLED"])
                 ELSE Undefined
        wc == [deploymentType |-> G("deploymentType"),
               activeDirectoryId |-> G("activeDirectoryId"),
               aliases |-> G("aliases"),
               auditLogConfiguration |-> audit,
               automaticBackupRetentionDays |-> Undefined,
               copyTagsToBackups |-> Undefined,
               dailyAutomaticBackupStartTime |-> G("dailyAutomaticBackupStartTime"),
               preferredSubnetId |-> G("preferredSubnetId"),
               selfManagedActiveDirectoryConfiguration |-> smad,
               storageType |-> Some("SSD"),
               throughputCapacity |-> G("throughputCapacity"),
               weeklyMaintenanceStartTime |-> G("weeklyMaintenanceStartTime")]
    IN  [windowsConfiguration |->
             [f \in (DOMAIN wc) \cup {"ownKeys"} |->
                 IF f = "ownKeys"
                 THEN {"deploymentType", "throughputCapacity"}
                          \cup {k \in OptionalKeys : IsDefined(wc[k])}
                 ELSE wc[f]],
         vpc |-> "VPC",
         vpcSubnet |-> [subnetId |-> "subnet-0"],
         storageCapacityGiB |-> G("storageCapacityGiB"),
         securityGroup |-> G("securityGroup"),
         kmsKey |-> G("kmsKey"),
         backupId |-> G("backupId"),
         removalPolicy |-> Undefined]

ThroughputRange == 0..MaxThroughputInput
StorageRange ==
    ((MinStorage - StorageWindow)..(MinStorage + StorageWindow))
        \cup ((MaxStorage - StorageWindow)..(MaxStorage + StorageWindow))

\* the choices a caller can make for the class definition i
Inputs(i) ==
    Overrides(IF i = FULL THEN Dims ELSE DimsBasic, 1, MaxDeviations)

(***************************************************************************)
(* validateProps: the validators in the order they are called.             *)
(***************************************************************************)
\* mutant: the first two validators in the other order
validatePropsSwapped ==
    <<"validateThroughputCapacity", "validateActiveDirectoryId", "validateAliases",
      "validatePreferredSubnetId", "validateDnsIps", "validateDomainName",
      "validateFileSystemAdministratorsGroup",
      "validateOrganizationalUnitDistinguishedName", "validatePassword",
      "validateUsername", "validateARN">>

validateProps ==
    <<"validateActiveDirectoryId", "validateThroughputCapacity", "validateAliases",
      "validatePreferredSubnetId", "validateDnsIps", "validateDomainName",
      "validateFileSystemAdministratorsGroup",
      "validateOrganizationalUnitDistinguishedName", "validatePassword",
      "validateUsername", "validateARN">>

validatePropsBasic == <<"validateThroughputCapacity", "validateStorageCapacity">>

ValidatorOrder(i) == IF i = FULL THEN validateProps ELSE validatePropsBasic

\* o?.f
OptField(o, f) == IF IsDefined(o) THEN o[1][f] ELSE Undefined

\* the call validateProps makes of the validator named name
CallValidator(i, name, p) ==
    LET wc == p.windowsConfiguration
        smad == wc.selfManagedActiveDirectoryConfiguration
    IN  CASE name = "validateActiveDirectoryId" ->
                validateActiveDirectoryId(wc.activeDirectoryId)
          [] name = "validateThroughputCapacity" ->
                IF i = FULL THEN validateThroughputCapacity(wc.throughputCapacity)
                ELSE validateThroughputCapacityBasic(wc.throughputCapacity)
          [] name = "validateAliases" -> validateAliases(wc.aliases)
          [] name = "validatePreferredSubnetId" ->
                validatePreferredSubnetId(wc.deploymentType, wc.preferredSubnetId)
          [] name = "validateDnsIps" -> validateDnsIps(OptField(smad, "dnsIps"))
          [] name = "validateDomainName" -> validateDomainName(OptField(smad, "domainName"))
          [] name = "validateFileSystemAdministratorsGroup" ->
                validateFileSystemAdministratorsGroup(
                    OptField(smad, "fileSystemAdministratorsGroup"))
          [] name = "validateOrganizationalUnitDistinguishedName" ->
                validateOrganizationalUnitDistinguishedName(
                    OptField(smad, "organizationalUnitDistinguishedName"))
          [] name = "validatePassword" -> validatePassword(OptField(smad, "password"))
          [] name = "validateUsername" -> validateUsername(OptField(smad, "username"))
          [] name = "validateARN" ->
                validateARN(OptField(wc.auditLogConfiguration, "auditLogDestination"))
          [] name = "validateStorageCapacity" ->
                validateStorageCapacity(p.storageCapacityGiB)

(***************************************************************************)
(* Ports, connections, the assembled configuration.                        *)
(***************************************************************************)
DEFAULT_FILE_SYSTEM_TYPE == "WINDOWS"
StartPort == 988
EndPort == 1023
DEFAULT_PORT_RANGE == [startPort |-> StartPort, endPort |-> EndPort]

\* Port.tcpRange(a, b)
tcpRange(a, b) == [protocol |-> "tcp", fromPort |-> a, toPort |-> b]

configureConnections(sg) ==
    [securityGroups |-> <<sg>>,
     defaultPort |-> tcpRange(DEFAULT_PORT_RANGE.startPort, DEFAULT_PORT_RANGE.endPort)]

\* the rule securityGroup.addIngressRule(securityGroup, Port.tcpRange(...)) adds
SelfIngressRule(sg) ==
    [group |-> sg, peer |-> sg,
     port |-> tcpRange(DEFAULT_PORT_RANGE.startPort, DEFAULT_PORT_RANGE.endPort)]

\* x?.toTimestamp()
OptTimestamp(o) == IF IsDefined(o) THEN Some(toTimestamp(o[1])) ELSE Undefined
OptMaintenanceTimestamp(o) ==
    IF IsDefined(o) THEN Some(maintenanceToTimestamp(o[1])) ELSE Undefined

\* the object literal updatedWindowsProps: both keys are always written
updatedWindowsProps(wc) ==
    [dailyAutomaticBackupStartTime |-> OptTimestamp(wc.dailyAutomaticBackupStartTime),
     weeklyMaintenanceStartTime |-> OptMaintenanceTimestamp(wc.weeklyMaintenanceStartTime)]

\* mutant: an optional field the source leaves unset is filled with null
ObjectAssignNullFilled(wc, upd) ==
    [f \in DOMAIN wc |->
        IF f = "ownKeys" THEN wc.ownKeys \cup DOMAIN upd \cup OptionalKeys
        ELSE IF f \in DOMAIN upd THEN upd[f]
        ELSE IF f \in OptionalKeys /\ wc[f] = Undefined THEN Some("null")
        ELSE wc[f]]

\* Object.assign({}, wc, upd): a new object, the keys of upd written last
ObjectAssign(wc, upd) ==
    [f \in DOMAIN wc |->
        IF f = "ownKeys" THEN wc.ownKeys \cup DOMAIN upd
        ELSE IF f \in DOMAIN upd THEN upd[f]
        ELSE wc[f]]

AssembledConfiguration(i, wc) ==
    IF i = FULL THEN ObjectAssign(wc, updatedWindowsProps(wc)) ELSE wc

FileSystemRef == "Ref:Resource"
DnsNameOf(id) == <<id, ".fsx.", "Ref:AWS::Region", ".", "Ref:AWS::URLSuffix">>

CfnFileSystemProps(p, wc, sg) ==
    [fileSystemType |-> DEFAULT_FILE_SYSTEM_TYPE,
     subnetIds |-> <<p.vpcSubnet.subnetId>>,
     backupId |-> p.backupId,
     kmsKeyId |-> IF IsDefined(p.kmsKey) THEN Some(p.kmsKey[1].keyId) ELSE Undefined,
     windowsConfiguration |-> wc,
     securityGroupIds |-> <<sg>>,
     storageCapacity |-> p.storageCapacityGiB,
     removalPolicy |-> p.removalPolicy]

(***************************************************************************)
(* State.                                                                  *)
(*   pc            where the running operation is                          *)
(*   impl, input   the class definition constructed and the caller's       *)
(*                 choice of props (props is Build(input)); for an import  *)
(*                 input holds the attributes given                        *)
(*   vIdx, ran     the next validator of validateProps, those run so far   *)
(*   err           the message of the Error thrown (NoError: none)         *)
(*   windowsConfiguration, securityGroup, connections                      *)
(*                 the constructor's locals and fields                     *)
(*   stackGroups, createdGroups, ingressRules, resources                   *)
(*                 the stack: its security groups, those the constructor   *)
(*                 created, their ingress rules, its CfnFileSystems        *)
(*   handle        the attributes of the constructed or imported object    *)
(*   timeObj, timeResults                                                  *)
(*                 a BackupStartTime and what toTimestamp() returned       *)
(***************************************************************************)
NoInput == <<>>
\* the props object of the running constructor call
props == Build(input)
NoTime == [error |-> NoError, args |-> [hour |-> Num(0), minute |-> Num(0)],
           hour |-> <<>>, minute |-> <<>>]

\* a rule a caller may have put on its own security group beforehand
CallerRule == [group |-> ExistingGroup, peer |-> "sg-peer", port |-> tcpRange(445, 445)]

Init ==
    /\ pc = "idle"
    /\ impl = FULL
    /\ input = NoInput
    /\ vIdx = 1
    /\ ran = <<>>
    /\ err = NoError
    /\ windowsConfiguration = Undefined
    /\ securityGroup = Undefined
    /\ stackGroups = {ExistingGroup}
    /\ createdGroups = <<>>
    /\ ingressRules = {CallerRule}
    /\ connections = Undefined
    /\ resources = <<>>
    /\ handle = Undefined
    /\ timeObj = NoTime
    /\ timeResults = <<>>

\* mutant: the security group is made and opened before validateProps runs
ConstructEager(i, o) ==
    /\ pc = "idle"
    /\ pc' = "validate"
    /\ impl' = i
    /\ input' = o
    /\ vIdx' = 1
    /\ ran' = <<>>
    /\ stackGroups' = stackGroups \cup {NewGroup}
    /\ createdGroups' = Append(createdGroups, NewGroup)
    /\ ingressRules' = ingressRules \cup {SelfIngressRule(NewGroup)}
    /\ UNCHANGED <<err, windowsConfiguration, securityGroup, connections, resources,
                   handle, timeObj, timeResults>>

\* new WindowsFileSystem(scope, id, p): super(scope, id), then validateProps
Construct(i, o) ==
    /\ pc = "idle"
    /\ pc' = "validate"
    /\ impl' = i
    /\ input' = o
    /\ vIdx' = 1
    /\ ran' = <<>>
    /\ UNCHANGED <<err, windowsConfiguration, securityGroup, stackGroups, createdGroups,
                   ingressRules, connections, resources, handle, timeObj, timeResults>>

\* one call of validateProps: the validator throws, or the next one is due
RunValidator ==
    /\ pc = "validate"
    /\ LET name == ValidatorOrder(impl)[vIdx]
           e == CallValidator(impl, name, props)
       IN  /\ ran' = Append(ran, name)
           /\ err' = e
           /\ IF e # NoError
              THEN /\ pc' = "failed"
                   /\ vIdx' = vIdx
              ELSE IF vIdx = Len(ValidatorOrder(impl))
              THEN /\ pc' = "assemble"
                   /\ vIdx' = vIdx
              ELSE /\ pc' = "validate"
                   /\ vIdx' = vIdx + 1
    /\ UNCHANGED <<impl, input, windowsConfiguration, securityGroup, stackGroups,
                   createdGroups, ingressRules, connections, resources, handle,
                   timeObj, timeResults>>

\* const windowsConfiguration = Object.assign({}, props.windowsConfiguration, ...)
Assemble ==
    /\ pc = "assemble"
    /\ windowsConfiguration' = Some(AssembledConfiguration(impl, props.windowsConfiguration))
    /\ pc' = "securityGroup"
    /\ UNCHANGED <<impl, input, vIdx, ran, err, securityGroup, stackGroups, createdGroups,
                   ingressRules, connections, resources, handle, timeObj, timeResults>>

\* mutant: a new security group is made even when one is supplied
ResolveSecurityGroupAlwaysNew ==
    /\ pc = "securityGroup"
    /\ securityGroup' = Some(NewGroup)
    /\ stackGroups' = stackGroups \cup {NewGroup}
    /\ createdGroups' = Append(createdGroups, NewGroup)
    /\ pc' = "ingress"
    /\ UNCHANGED <<impl, input, vIdx, ran, err, windowsConfiguration, ingressRules,
                   connections, resources, handle, timeObj, timeResults>>

\* props.securityGroup || new SecurityGroup(this, 'FsxWindowsSecurityGroup', ...)
ResolveSecurityGroup ==
    /\ pc = "securityGroup"
    /\ IF IsDefined(props.securityGroup)
       THEN /\ securityGroup' = props.securityGroup
            /\ UNCHANGED <<stackGroups, createdGroups>>
       ELSE /\ securityGroup' = Some(NewGroup)
            /\ stackGroups' = stackGroups \cup {NewGroup}
            /\ createdGroups' = Append(createdGroups, NewGroup)
    /\ pc' = "ingress"
    /\ UNCHANGED <<impl, input, vIdx, ran, err, windowsConfiguration, ingressRules,
                   connections, resources, handle, timeObj, timeResults>>

AddIngressRule ==
    /\ pc = "ingress"
    /\ ingressRules' = ingressRules \cup {SelfIngressRule(securityGroup[1])}
    /\ pc' = "connections"
    /\ UNCHANGED <<impl, input, vIdx, ran, err, windowsConfiguration, securityGroup,
                   stackGroups, createdGroups, connections, resources, handle,
                   timeObj, timeResults>>

ConfigureConnections ==
    /\ pc = "connections"
    /\ connections' = Some(configureConnections(securityGroup[1]))
    /\ pc' = "resource"
    /\ UNCHANGED <<impl, input, vIdx, ran, err, windowsConfiguration, securityGroup,
                   stackGroups, createdGroups, ingressRules, resources, handle,
                   timeObj, timeResults>>

\* new CfnFileSystem(this, 'Resource', {...}) and applyRemovalPolicy
CreateFileSystem ==
    /\ pc = "resource"
    /\ resources' = Append(resources,
                           CfnFileSystemProps(props, windowsConfiguration[1], securityGroup[1]))
    /\ pc' = "attributes"
    /\ UNCHANGED <<impl, input, vIdx, ran, err, windowsConfiguration, securityGroup,
                   stackGroups, createdGroups, ingressRules, connections, handle,
                   timeObj, timeResults>>

\* this.fileSystemId = this.fileSystem.ref; this.dnsName = ...
SetAttributes ==
    /\ pc = "attributes"
    /\ handle' = Some([kind |-> "created",
                       fileSystemId |-> FileSystemRef,
                       dnsName |-> DnsNameOf(FileSystemRef),
                       connections |-> connections[1]])
    /\ pc' = "done"
    /\ UNCHANGED <<impl, input, vIdx, ran, err, windowsConfiguration, securityGroup,
                   stackGroups, createdGroups, ingressRules, connections, resources,
                   timeObj, timeResults>>

(***************************************************************************)
(* fromWindowsFileSystemAttributes.                                        *)
(***************************************************************************)
ImportAttrs ==
    {[dnsName |-> d, fileSystemId |-> f, securityGroup |-> g] :
        d \in {<<"fs-1", ".fsx.", "eu-west-1", ".", "amazonaws.com">>, <<>>},
        f \in {"fs-1", "", "not an id"},
        g \in {ExistingGroup, "sg-imported"}}

ImportFields(attrs) ==
    [kind |-> "imported",
     fileSystemId |-> attrs.fileSystemId,
     dnsName |-> attrs.dnsName,
     connections |-> configureConnections(attrs.securityGroup)]

\* mutant: the import opens the supplied security group as the constructor does
fromAttributesAddingIngress(attrs) ==
    /\ pc = "idle"
    /\ input' = attrs
    /\ handle' = Some(ImportFields(attrs))
    /\ ingressRules' = ingressRules \cup {SelfIngressRule(attrs.securityGroup)}
    /\ pc' = "imported"
    /\ UNCHANGED <<impl, vIdx, ran, err, windowsConfiguration, securityGroup,
                   stackGroups, createdGroups, connections, resources,
                   timeObj, timeResults>>

fromWindowsFileSystemAttributes(attrs) ==
    /\ pc = "idle"
    /\ input' = attrs
    /\ handle' = Some(ImportFields(attrs))
    /\ pc' = "imported"
    /\ UNCHANGED <<impl, vIdx, ran, err, windowsConfiguration, securityGroup,
                   stackGroups, createdGroups, ingressRules, connections, resources,
                   timeObj, timeResults>>

(***************************************************************************)
(* A BackupStartTime of the caller's.                                      *)
(***************************************************************************)
HourInputs ==
    {Num(h) : h \in (-1)..MaxHourInput} \cup {NumFrac(1, 2), NumFrac(23, 5), NumFrac(24, 1)}
MinuteInputs ==
    {Num(m) : m \in (-1)..MaxMinuteInput} \cup {NumFrac(1, 2), NumFrac(59, 9)}

NewBackupStartTime(h, m) ==
    /\ pc = "idle"
    /\ LET t == BackupStartTime([hour |-> h, minute |-> m])
       IN  /\ timeObj' = t
           /\ err' = t.error
           /\ pc' = IF t.error # NoError THEN "timeFailed" ELSE "time"
    /\ UNCHANGED <<impl, input, vIdx, ran, windowsConfiguration, securityGroup,
                   stackGroups, createdGroups, ingressRules, connections, resources,
                   handle, timeResults>>

CallToTimestamp ==
    /\ pc = "time"
    /\ Len(timeResults) < MaxTimestampCalls
    /\ timeResults' = Append(timeResults, toTimestamp(timeObj))
    /\ UNCHANGED <<pc, impl, input, vIdx, ran, err, windowsConfiguration, securityGroup,
                   stackGroups, createdGroups, ingressRules, connections, resources,
                   handle, timeObj>>

(***************************************************************************)
(* A WindowsMaintenanceTime of the caller's.                               *)
(***************************************************************************)
NewWindowsMaintenanceTime(d, h, m) ==
    /\ pc = "idle"
    /\ LET t == WindowsMaintenanceTime([day |-> d, hour |-> h, minute |-> m])
       IN  /\ timeObj' = t
           /\ err' = t.error
           /\ pc' = IF t.error # NoError THEN "maintenanceFailed" ELSE "maintenance"
    /\ UNCHANGED <<impl, input, vIdx, ran, windowsConfiguration, securityGroup,
                   stackGroups, createdGroups, ingressRules, connections, resources,
                   handle, timeResults>>

CallMaintenanceToTimestamp ==
    /\ pc = "maintenance"
    /\ Len(timeResults) < MaxTimestampCalls
    /\ timeResults' = Append(timeResults, maintenanceToTimestamp(timeObj))
    /\ UNCHANGED <<pc, impl, input, vIdx, ran, err, windowsConfiguration, securityGroup,
                   stackGroups, createdGroups, ingressRules, connections, resources,
                   handle, timeObj>>

\* the calls a caller can make on the idle stack
ConstructSome ==
    /\ pc = "idle"
    /\ \E i \in {FULL, BASIC} : \E o \in Inputs(i) : Construct(i, o)
ConstructThroughput ==
    /\ pc = "idle"
    /\ \E i \in {FULL, BASIC} : \E v \in ThroughputRange :
           Construct(i, "throughputCapacity" :> v)
ConstructStorage ==
    /\ pc = "idle"
    /\ \E i \in {FULL, BASIC} : \E s \in StorageRange :
           Construct(i, "storageCapacityGiB" :> s)
ImportSome ==
    /\ pc = "idle"
    /\ \E attrs \in ImportAttrs : fromWindowsFileSystemAttributes(attrs)
NewTimeSome ==
    /\ pc = "idle"
    /\ \E h \in HourInputs : \E m \in MinuteInputs : NewBackupStartTime(h, m)
NewMaintenanceTimeSome ==
    /\ pc = "idle"
    /\ \E d \in WeekdayInputs : \E h \in HourInputs : \E m \in MinuteInputs :
           NewWindowsMaintenanceTime(d, h, m)

Next ==
    \/ ConstructSome
    \/ ConstructThroughput
    \/ ConstructStorage
    \/ RunValidator
    \/ Assemble
    \/ ResolveSecurityGroup
    \/ AddIngressRule
    \/ ConfigureConnections
    \/ CreateFileSystem
    \/ SetAttributes
    \/ ImportSome
    \/ NewTimeSome
    \/ CallToTimestamp
    \/ NewMaintenanceTimeSome
    \/ CallMaintenanceToTimestamp

Spec == Init /\ [][Next]_vars

(***************************************************************************)
(* Notions the properties below are stated with.                           *)
(***************************************************************************)
Finished == pc \in {"done", "failed"}
ThroughputOf == props.windowsConfiguration.throughputCapacity
PowersOfTwo == {2 ^ k : k \in 0..20}

\* every validator of the running class other than name accepts the props
OtherValidatorsAccept(name) ==
    \A k \in 1..Len(ValidatorOrder(impl)) :
        ValidatorOrder(impl)[k] # name
            => CallValidator(impl, ValidatorOrder(impl)[k], props) = NoError

\* the rules on the stack that the caller did not put there itself
AddedRules == ingressRules \ {CallerRule}

\* C1: with every other prop valid, construction succeeds exactly for the
\* throughput capacities 8 <= v <= 4096 that are powers of two; it fails with
\* the throughput-capacity error for every other integer; on success the
\* submitted windowsConfiguration carries throughputCapacity = v.
C1_ThroughputAccepted ==
    (Finished /\ OtherValidatorsAccept("validateThroughputCapacity")) =>
        /\ (pc = "done") <=>
              (ThroughputOf >= 8 /\ ThroughputOf <= 4096 /\ ThroughputOf \in PowersOfTwo)
        /\ pc = "failed" => err \in {ErrThroughput, ErrThroughputBasic}
        /\ pc = "done" =>
              /\ Len(resources) = 1
              /\ resources[1].windowsConfiguration.throughputCapacity = ThroughputOf

C1_Witness ==
    /\ pc = "done"
    /\ impl = FULL
    /\ ThroughputOf = 4096
    /\ resources[1].windowsConfiguration.throughputCapacity = 4096

\* C2 (as claimed): with every other prop valid, construction is accepted
\* exactly for the storage capacities 32 <= s <= 65536, and for every other
\* s it throws before any resource is created.  The class of
\* unnamed/part_000 calls no storage validator and accepts every s.
C2_StorageValidated ==
    (Finished /\ OtherValidatorsAccept("validateStorageCapacity")) =>
        LET s == props.storageCapacityGiB
        IN  /\ (pc = "done") <=> (s >= 32 /\ s <= 65536)
            /\ (s < 32 \/ s > 65536) => (pc = "failed" /\ resources = <<>>)

\* The same statement of the class of lib/windows-file-system.ts alone, which
\* does call validateStorageCapacity.
StorageValidatedBasic == impl = BASIC => C2_StorageValidated

(***************************************************************************)
(* The ARN grammar of the claim: arn:<partition>:<service>:<region>:       *)
(* <account-or-empty>:<resource>, the account empty or twelve digits, the  *)
(* resource not starting with "/".                                         *)
(***************************************************************************)
ClaimedArnGrammar(s) ==
    LET c1 == NextColon(s, 5)
        c2 == IF c1 = 0 THEN 0 ELSE NextColon(s, c1 + 1)
        c3 == IF c2 = 0 THEN 0 ELSE NextColon(s, c2 + 1)
        c4 == IF c3 = 0 THEN 0 ELSE NextColon(s, c3 + 1)
        account == Slice(s, c3 + 1, c4 - 1)
    IN  /\ Len(s) >= 4
        /\ Slice(s, 1, 4) = <<"a", "r", "n", ":">>
        /\ c4 # 0
        /\ c1 > 5
        /\ account = <<>>
             \/ (Len(account) = 12 /\ \A i \in 1..12 : account[i] \in DecimalDigits)
        /\ Len(s) > c4
        /\ s[c4 + 1] # "/"

AuditLogDestinationOf ==
    OptField(props.windowsConfiguration.auditLogConfiguration, "auditLogDestination")

\* C3 (as claimed): a supplied (non-empty) auditLogDestination is accepted by validateARN
\* exactly when it has the claimed ARN form; in particular a well-formed ARN
\* with a twelve-digit account id is accepted.
C3_ArnGrammar ==
    (impl = FULL /\ pc \notin {"idle", "imported", "time", "timeFailed"}
        /\ Len(ran) = Len(validateProps) /\ TruthyString(AuditLogDestinationOf)) =>
            ((err = NoError) <=> ClaimedArnGrammar(AuditLogDestinationOf[1]))

(***************************************************************************)
(* C4.                                                                     *)
(***************************************************************************)
MultiAzWithoutSubnet ==
    /\ props.windowsConfiguration.deploymentType = "MULTI_AZ_1"
    /\ props.windowsConfiguration.preferredSubnetId = Undefined

\* the validators validateProps calls before validatePreferredSubnetId accept
EarlierValidatorsAccept ==
    /\ validateActiveDirectoryId(props.windowsConfiguration.activeDirectoryId) = NoError
    /\ validateThroughputCapacity(props.windowsConfiguration.throughputCapacity) = NoError
    /\ validateAliases(props.windowsConfiguration.aliases) = NoError

\* C4 (as claimed): MULTI_AZ_1 without a preferredSubnetId always fails with
\* the error naming the preferred subnet id.
C4_AlwaysSubnetError ==
    (Finished /\ impl = FULL /\ MultiAzWithoutSubnet) =>
        (pc = "failed" /\ err = ErrPreferredSubnetId)

\* C4 (amended): MULTI_AZ_1 without a preferredSubnetId always fails, and
\* with the error naming the preferred subnet id whenever activeDirectoryId,
\* throughputCapacity and aliases are valid (they are validated first); with
\* a preferredSubnetId, or with SINGLE_AZ_1 or SINGLE_AZ_2 with or without
\* one, the preferred-subnet error is never raised.
C4_PreferredSubnet ==
    (Finished /\ impl = FULL) =>
        /\ MultiAzWithoutSubnet =>
              /\ pc = "failed"
              /\ EarlierValidatorsAccept => err = ErrPreferredSubnetId
        /\ ~MultiAzWithoutSubnet => err # ErrPreferredSubnetId

C4_Witness ==
    /\ pc = "failed"
    /\ impl = FULL
    /\ MultiAzWithoutSubnet
    /\ err = ErrPreferredSubnetId

(***************************************************************************)
(* C5.                                                                     *)
(***************************************************************************)
\* C5: while validateProps runs and when a validator has thrown, no security
\* group has been created, no ingress rule has been added (to a new or to a
\* caller-supplied group), no connections object and no CfnFileSystem exist.
C5_ValidationFirst ==
    pc \in {"validate", "failed"} =>
        /\ createdGroups = <<>>
        /\ stackGroups = {ExistingGroup}
        /\ AddedRules = {}
        /\ connections = Undefined
        /\ resources = <<>>
        /\ handle = Undefined

C5_Witness ==
    /\ pc = "failed"
    /\ impl = FULL
    /\ IsDefined(props.securityGroup)
    /\ Len(ran) = Len(validateProps)
    /\ err = ErrARN
    /\ AddedRules = {}

(***************************************************************************)
(* C6.                                                                     *)
(***************************************************************************)
ClaimedOrder ==
    <<"validateActiveDirectoryId", "validateThroughputCapacity", "validateAliases",
      "validatePreferredSubnetId", "validateDnsIps", "validateDomainName",
      "validateFileSystemAdministratorsGroup",
      "validateOrganizationalUnitDistinguishedName", "validatePassword",
      "validateUsername", "validateARN">>

\* the positions in ClaimedOrder of the validators that reject the props
Rejecting ==
    {k \in 1..Len(ClaimedOrder) : CallValidator(FULL, ClaimedOrder[k], props) # NoError}

Least(S) == CHOOSE k \in S : \A j \in S : k <= j

\* C6: the validators run in the claimed order; when the constructor fails,
\* the validators run are exactly those up to the earliest one that rejects
\* the props, and the error is that validator's (a function of the props
\* alone); when no validator rejects, all eleven run and none throws.
C6_FailFastOrder ==
    (impl = FULL /\ pc \notin {"idle", "imported", "time", "timeFailed",
                              "maintenance", "maintenanceFailed"}) =>
        /\ Len(ran) <= Len(ClaimedOrder)
        /\ \A k \in 1..Len(ran) : ran[k] = ClaimedOrder[k]
        /\ pc = "validate" => err = NoError
        /\ pc = "failed" =>
              LET rejecting == Rejecting
              IN  /\ rejecting # {}
                  /\ Len(ran) = Least(rejecting)
                  /\ err = CallValidator(FULL, ClaimedOrder[Least(rejecting)], props)
        /\ pc = "done" =>
              /\ Rejecting = {}
              /\ ran = ClaimedOrder
              /\ err = NoError

C6_Witness ==
    /\ pc = "failed"
    /\ impl = FULL
    /\ Cardinality(Rejecting) = 2
    /\ err = ErrThroughput
    /\ validateARN(AuditLogDestinationOf) = ErrARN
    /\ Len(ran) = 2

(***************************************************************************)
(* C7, C8.                                                                 *)
(***************************************************************************)
FixedPortSet == {988, 1021, 1022, 1023}

\* the self-referential rules of the security group in use
SelfRules ==
    {r \in ingressRules : r.group = securityGroup[1] /\ r.peer = securityGroup[1]}

\* the ports the self-referential rules let in
SelfPorts == UNION {r.port.fromPort..r.port.toPort : r \in SelfRules}

\* C7 (as claimed): after a successful construction the security group in
\* use has a self-referential TCP ingress rule, and its self-referential
\* rules let in exactly the ports 988, 1021, 1022, 1023.
C7_ExactPortSet ==
    pc = "done" =>
        /\ SelfRules # {}
        /\ \A r \in SelfRules : r.port.protocol = "tcp"
        /\ SelfPorts = FixedPortSet

\* C8: a successful construction creates exactly one CfnFileSystem and uses
\* one security group: the supplied one (none is created) or else exactly
\* one new one; securityGroupIds holds that group alone, subnetIds holds
\* props.vpcSubnet's id alone, and the connections are bound to that group.
C8_OneGroupOneResource ==
    pc = "done" =>
        /\ Len(resources) = 1
        /\ IsDefined(securityGroup)
        /\ IF IsDefined(props.securityGroup)
           THEN /\ securityGroup = props.securityGroup
                /\ createdGroups = <<>>
                /\ stackGroups = {ExistingGroup}
           ELSE /\ createdGroups = <<securityGroup[1]>>
                /\ securityGroup[1] # ExistingGroup
                /\ stackGroups = {ExistingGroup, securityGroup[1]}
        /\ resources[1].securityGroupIds = <<securityGroup[1]>>
        /\ resources[1].subnetIds = <<props.vpcSubnet.subnetId>>
        /\ handle[1].connections.securityGroups = <<securityGroup[1]>>

C8_Witness ==
    /\ pc = "done"
    /\ props.securityGroup = Some(ExistingGroup)
    /\ resources[1].securityGroupIds = <<ExistingGroup>>
    /\ createdGroups = <<>>

(***************************************************************************)
(* C9.                                                                     *)
(***************************************************************************)
\* C9: an import runs no validator, throws nothing, creates no security
\* group and no CfnFileSystem and adds no ingress rule; the handle has the
\* dnsName and fileSystemId given, and its connections wrap the security
\* group given with the default port TCP 988-1023.
C9_ImportIsPure ==
    pc = "imported" =>
        /\ ran = <<>>
        /\ err = NoError
        /\ createdGroups = <<>>
        /\ stackGroups = {ExistingGroup}
        /\ resources = <<>>
        /\ AddedRules = {}
        /\ handle[1].dnsName = input.dnsName
        /\ handle[1].fileSystemId = input.fileSystemId
        /\ handle[1].connections.securityGroups = <<input.securityGroup>>
        /\ handle[1].connections.defaultPort =
              [protocol |-> "tcp", fromPort |-> 988, toPort |-> 1023]

C9_Witness ==
    /\ pc = "imported"
    /\ input.fileSystemId = "not an id"
    /\ input.dnsName = <<>>
    /\ handle[1].fileSystemId = "not an id"
    /\ handle[1].connections.securityGroups = <<"sg-imported">>

(***************************************************************************)
(* C10.                                                                    *)
(***************************************************************************)
\* the two-digit zero-padded decimal form of n in 0..99
ClaimedTwoDigits(n) == <<DigitChar(n \div 10), DigitChar(n % 10)>>

\* the hour and minute read back from a string HH:MM
DigitValue(c) == CHOOSE d \in 0..9 : DigitChar(d) = c
ReadTimestamp(r) ==
    [hour |-> Num(DigitValue(r[1]) * 10 + DigitValue(r[2])),
     minute |-> Num(DigitValue(r[4]) * 10 + DigitValue(r[5]))]

ValidTimeArgs ==
    /\ NumberIsInteger(timeObj.args.hour) /\ timeObj.args.hour.int \in 0..24
    /\ NumberIsInteger(timeObj.args.minute) /\ timeObj.args.minute.int \in 0..59

\* C10: for an integer hour in [0,24] and minute in [0,59] the constructor
\* succeeds and every toTimestamp() call returns the same five-character
\* string HH:MM of the zero-padded hour and minute, from which the hour and
\* minute can be read back (so no two valid times give the same string).
C10_BackupTimestamp ==
    (pc \in {"time", "timeFailed"} /\ ValidTimeArgs) =>
        /\ pc = "time"
        /\ \A k \in 1..Len(timeResults) :
              /\ Len(timeResults[k]) = 5
              /\ timeResults[k] = ClaimedTwoDigits(timeObj.args.hour.int) \o <<":">>
                                      \o ClaimedTwoDigits(timeObj.args.minute.int)
              /\ timeResults[k] = timeResults[1]
              /\ timeResults[k][3] = ":"
              /\ \A j \in {1, 2, 4, 5} : timeResults[k][j] \in DecimalDigits
              /\ ReadTimestamp(timeResults[k]) = timeObj.args

C10_Witness ==
    /\ pc = "time"
    /\ timeObj.args = [hour |-> Num(5), minute |-> Num(0)]
    /\ Len(timeResults) = 2
    /\ timeResults[2] = <<"0", "5", ":", "0", "0">>

(***************************************************************************)
(* C11, C12.                                                               *)
(***************************************************************************)
HourInRange(x) == x.frac = 0 /\ x.int >= 0 /\ x.int <= 24
MinuteInRange(x) == x.frac = 0 /\ x.int >= 0 /\ x.int <= 59

\* C11: new BackupStartTime fails exactly when the hour is not an integer in
\* [0,24] or the minute is not an integer in [0,59]; an invalid hour gives
\* the error naming the hour (also when the minute is invalid too), an
\* invalid minute with a valid hour the error naming the minute; after a
\* failure the object's fields were never assigned and nothing can be asked
\* of it.
C11_TimeValidation ==
    pc \in {"time", "timeFailed"} =>
        LET hourOk == HourInRange(timeObj.args.hour)
            minuteOk == MinuteInRange(timeObj.args.minute)
        IN  /\ (pc = "timeFailed") <=> ~(hourOk /\ minuteOk)
            /\ ~hourOk => err = ErrHour
            /\ (hourOk /\ ~minuteOk) => err = ErrMinute
            /\ pc = "time" => (err = NoError /\ timeObj.hour # <<>> /\ timeObj.minute # <<>>)
            /\ pc = "timeFailed" =>
                  /\ timeObj.hour = <<>>
                  /\ timeObj.minute = <<>>
                  /\ timeResults = <<>>

C11_Witness ==
    /\ pc = "timeFailed"
    /\ timeObj.args = [hour |-> Num(25), minute |-> Num(60)]
    /\ err = ErrHour
    /\ timeObj.hour = <<>>

ClaimedWeekdayIndex(day) ==
    CASE day = "MONDAY" -> 1
      [] day = "TUESDAY" -> 2
      [] day = "WEDNESDAY" -> 3
      [] day = "THURSDAY" -> 4
      [] day = "FRIDAY" -> 5
      [] day = "SATURDAY" -> 6
      [] day = "SUNDAY" -> 7

(***************************************************************************)
\* validateProps has called the validator name; the call threw; it returned
RanValidator(name) == \E k \in 1..Len(ran) : ran[k] = name
Threw(name) == pc = "failed" /\ ran # <<>> /\ ran[Len(ran)] = name
AcceptedBy(name) == RanValidator(name) /\ ~Threw(name)

AliasesOf == props.windowsConfiguration.aliases
SelfManagedOf == props.windowsConfiguration.selfManagedActiveDirectoryConfiguration
DnsIpsOf == OptField(SelfManagedOf, "dnsIps")

\* C13: validateAliases accepts exactly an absent list or one of at most 50
\* entries, validateDnsIps exactly an absent list or one of at most 3
\* entries, each throwing its own error otherwise; so the configuration a
\* successful construction submits has at most 50 aliases and 3 DNS IPs.
C13_ListBounds ==
    impl = FULL =>
        /\ RanValidator("validateAliases") =>
              /\ AcceptedBy("validateAliases") <=>
                    (~IsDefined(AliasesOf) \/ Len(AliasesOf[1]) <= 50)
              /\ Threw("validateAliases") => err = ErrAliases
        /\ RanValidator("validateDnsIps") =>
              /\ AcceptedBy("validateDnsIps") <=>
                    (~IsDefined(DnsIpsOf) \/ Len(DnsIpsOf[1]) <= 3)
              /\ Threw("validateDnsIps") => err = ErrDnsIps
        /\ pc = "done" =>
              LET wc == resources[1].windowsConfiguration
                  ips == OptField(wc.selfManagedActiveDirectoryConfiguration, "dnsIps")
              IN  /\ IsDefined(wc.aliases) => Len(wc.aliases[1]) <= 50
                  /\ IsDefined(ips) => Len(ips[1]) <= 3

C13_Witness ==
    /\ pc = "done"
    /\ impl = FULL
    /\ IsDefined(AliasesOf) /\ Len(AliasesOf[1]) = 50
    /\ IsDefined(DnsIpsOf) /\ Len(DnsIpsOf[1]) = 3
    /\ Len(resources[1].windowsConfiguration.aliases[1]) = 50

TimeKeys == {"dailyAutomaticBackupStartTime", "weeklyMaintenanceStartTime"}

(* C15, C16, C17.                                                          *)
(***************************************************************************)
PasswordOf == OptField(SelfManagedOf, "password")

\* C15 (as claimed): a supplied password (here: a non-empty one) is accepted
\* by validatePassword exactly when its length is between 1 and 256,
\* whatever characters it holds, line terminators included.
C15_PasswordAnyCharacters ==
    (impl = FULL /\ RanValidator("validatePassword") /\ TruthyString(PasswordOf)) =>
        (AcceptedBy("validatePassword") <=>
            (Len(PasswordOf[1]) >= 1 /\ Len(PasswordOf[1]) <= 256))

\* the free-text fields of the directory configuration and their bounds
FreeTextValidators ==
    {"validateDomainName", "validateFileSystemAdministratorsGroup",
     "validateOrganizationalUnitDistinguishedName", "validateUsername"}
FreeTextField(v) ==
    CASE v = "validateDomainName" -> "domainName"
      [] v = "validateFileSystemAdministratorsGroup" -> "fileSystemAdministratorsGroup"
      [] v = "validateOrganizationalUnitDistinguishedName" ->
            "organizationalUnitDistinguishedName"
      [] v = "validateUsername" -> "username"
ClaimedBound(v) ==
    CASE v = "validateDomainName" -> 255
      [] v = "validateFileSystemAdministratorsGroup" -> 256
      [] v = "validateOrganizationalUnitDistinguishedName" -> 2000
      [] v = "validateUsername" -> 256
ClaimedFreeText(t, n) ==
    /\ Len(t) >= 1
    /\ Len(t) <= n
    /\ \A i \in 1..Len(t) : t[i] \notin {NUL, NEL, LS, PS, CR, LF}

\* C16 (as claimed): each free-text validator accepts an absent value, and
\* accepts a supplied value exactly when its length is between 1 and the
\* field's bound and it holds no separator character; so a supplied value
\* of length 0 is rejected.
C16_FreeTextFields ==
    impl = FULL =>
        \A v \in FreeTextValidators :
            RanValidator(v) =>
                LET value == OptField(SelfManagedOf, FreeTextField(v))
                IN  /\ ~IsDefined(value) => AcceptedBy(v)
                    /\ IsDefined(value) =>
                          (AcceptedBy(v) <=> ClaimedFreeText(value[1], ClaimedBound(v)))

ActiveDirectoryIdOf == props.windowsConfiguration.activeDirectoryId
ClaimedDirectoryId(t) ==
    /\ Len(t) = 12
    /\ t[1] = "d" /\ t[2] = "-"
    /\ \A i \in 3..12 : t[i] \in HexDigits

\* C17 (as claimed): validateActiveDirectoryId accepts an absent id, and
\* accepts a supplied id exactly when it is d- followed by exactly ten hex
\* digits; every supplied id that is shorter than that is rejected.
C17_DirectoryIdForm ==
    (impl = FULL /\ RanValidator("validateActiveDirectoryId")) =>
        /\ ~IsDefined(ActiveDirectoryIdOf) => AcceptedBy("validateActiveDirectoryId")
        /\ IsDefined(ActiveDirectoryIdOf) =>
              (AcceptedBy("validateActiveDirectoryId")
                  <=> ClaimedDirectoryId(ActiveDirectoryIdOf[1]))

(***************************************************************************)
(* C18.                                                                    *)
(***************************************************************************)
DeploymentTypeOf == props.windowsConfiguration.deploymentType
PreferredSubnetIdOf == props.windowsConfiguration.preferredSubnetId

\* C18 (as claimed): in every successful construction a preferredSubnetId
\* is present exactly when the deployment type is MULTI_AZ_1.
C18_SubnetIffMultiAz ==
    (pc = "done" /\ impl = FULL) =>
        (IsDefined(PreferredSubnetIdOf) <=> DeploymentTypeOf = "MULTI_AZ_1")

\* C18 (amended): no successful construction has MULTI_AZ_1 without a
\* preferredSubnetId, and the configuration submitted carries that id; a
\* construction rejected for the preferred subnet id is a MULTI_AZ_1 one
\* without the id.  (SINGLE_AZ_1 and SINGLE_AZ_2 are constructed with or
\* without one.)
C18_MultiAzHasSubnet ==
    impl = FULL =>
        /\ (pc = "done" /\ DeploymentTypeOf = "MULTI_AZ_1") =>
              /\ IsDefined(PreferredSubnetIdOf)
              /\ resources[1].windowsConfiguration.preferredSubnetId = PreferredSubnetIdOf
              /\ resources[1].windowsConfiguration.deploymentType = "MULTI_AZ_1"
        /\ Threw("validatePreferredSubnetId") =>
              (DeploymentTypeOf = "MULTI_AZ_1" /\ ~IsDefined(PreferredSubnetIdOf))

C18_Witness ==
    /\ pc = "done"
    /\ impl = FULL
    /\ DeploymentTypeOf = "MULTI_AZ_1"
    /\ PreferredSubnetIdOf = Some("subnet-1")
    /\ resources[1].windowsConfiguration.preferredSubnetId = Some("subnet-1")

====
